---- MODULE Spec2Model ----
(***************************************************************************)
(* A model of the permissions facade of packages/permissions:             *)
(* PermissionsAPI.getPermission, the sync and async handler constructors, *)
(* their registration methods, the handlers' invocation closures and the  *)
(* change listeners they attach to the provider's status objects.         *)
(*                                                                         *)
(* The host's navigator.permissions is the environment: a query either    *)
(* yields a fresh PermissionStatus whose state is live, or fails with a   *)
(* named error.  A name outside the host's PermissionName enumeration, or *)
(* a descriptor without a name, fails WebIDL conversion with a TypeError.  *)
(***************************************************************************)
EXTENDS Integers, Sequences, FiniteSets, TLC

\* Bounds of the model.
MaxCalls == 2
MaxRegs == 1
MaxChanges == 2
\* Bounds of the run that follows one invocation through changes of the host.
ChangeCalls == 1
ChangeRegs == 2
\* Bounds of the run with two handlers.
PairCalls == 1
PairChanges == 1
\* Bounds of the run that uses every operation of the facade.
FacadeCalls == 1
FacadeChanges == 1
MaxAssigns == 1
CrossCalls == 2

None == "none"
Thrown == "thrown"

\* PERMISSION_NAMES the host recognises, a name it does not, and None for a
\* descriptor that carries no name at all.
RecognizedNames == {"camera"}
UnknownNames == {"bogus"}
PermissionOption == RecognizedNames \cup UnknownNames \cup {None}

\* The options handlers are constructed for.
HandlerRequests == {"camera"}

\* PermissionStatus.state of the host.
ProviderStates == {"granted", "prompt", "denied"}
\* PermissionError.state.
ErrorStates == {"unsupported", "invalid"}
\* Names of the errors a present provider raises for a recognised name.
OtherErrors == {"InvalidStateError", "NotSupportedError"}

\* The identities of the handlers a caller constructs (the keys of #events).
HandlerIds == {1, 2}

\* Callback values a caller passes; "thrower" raises when invoked.
Callbacks == {"cb", "thrower"}
Raises(fn) == fn = "thrower"

SlotNames ==
  {"onPermissionChange", "onPermissionGranted", "onPermissionDenied", "onPermissionError"}

\* HandlerEvents as stored by #events.set(_handler, {}).
EmptyEvents ==
  [onPermissionChange |-> None, onPermissionGranted |-> None,
   onPermissionDenied |-> None, onPermissionError |-> None]

\* PermissionHandlerOption values a sync handler is constructed with.
NoOption == [granted |-> None, denied |-> None, error |-> None]
HandlerOptions ==
  { NoOption,
    [granted |-> "cb", denied |-> "cb", error |-> "cb"],
    [granted |-> "thrower", denied |-> "thrower", error |-> "cb"] }

VARIABLES
  permissions,   \* TRUE iff navigator.permissions exists (static #permissions)
  provState,     \* the host's recorded decision per recognised name
  handlers,      \* the handlers constructed so far
  events,        \* the #events WeakMap: events[h] is handler h's HandlerEvents
  calls,         \* the getPermission calls made so far, with their promises
  log,           \* the callbacks invoked so far, in order
  supportCheck,  \* the last isSupported call and what it did
  providerCalls, \* number of navigator.permissions.query calls performed
  nRegs,         \* number of registration calls so far
  lastReg,       \* the last registration call: handler, slot and callback
  nChanges,      \* number of host state changes so far
  cap            \* how many handlers, calls, registrations, changes and
                 \* assignments the run explores

vars ==
  <<permissions, provState, handlers, events, calls, log, supportCheck,
    providerCalls, nRegs, lastReg, nChanges, cap>>

----------------------------------------------------------------------------
\* isSupported(throwError): what the call does.
isSupportedNeverThrows(throwError) == IF permissions THEN "true" ELSE "false"

isSupported(throwError) ==
  LET supported == permissions IN
  IF ~supported /\ throwError THEN "throws"
  ELSE IF supported THEN "true" ELSE "false"

IsSupported(throwError) ==
  /\ supportCheck' = [throwError |-> throwError, result |-> isSupported(throwError)]
  /\ UNCHANGED <<permissions, provState, handlers, events, calls, log,
                 providerCalls, nRegs, lastReg, nChanges, cap>>

----------------------------------------------------------------------------
\* What navigator.permissions.query can answer for an option: a fresh status
\* object in the host's current state, or a named error.  An option whose name
\* is not in the host's enumeration, or is missing, is a TypeError.
Answer(ok, state, name) == [ok |-> ok, state |-> state, name |-> name]

ProviderAnswers(option) ==
  IF option \in RecognizedNames
  THEN {Answer(TRUE, provState[option], None)}
         \cup {Answer(FALSE, None, e) : e \in OtherErrors}
  ELSE {Answer(FALSE, None, "TypeError")}

\* PermissionsAPI.#permissions.query(option) inside getPermission's try block:
\* without navigator.permissions the member access itself throws a TypeError.
QueryWithFallback(option) ==
  IF ~permissions THEN {Answer(TRUE, "prompt", None)} ELSE ProviderAnswers(option)

QueryCached(option) ==
  IF \E i \in 1..Len(calls) : calls[i].option = option /\ calls[i].promise = "resolved"
  THEN LET i == CHOOSE i \in 1..Len(calls) :
                  calls[i].option = option /\ calls[i].promise = "resolved"
       IN {Answer(TRUE, calls[i].state, None)}
  ELSE IF ~permissions THEN {Answer(FALSE, None, "TypeError")}
  ELSE ProviderAnswers(option)

Query(option) ==
  IF ~permissions THEN {Answer(FALSE, None, "TypeError")} ELSE ProviderAnswers(option)

\* The error the try block catches, None if there is none.
Caught(answer) == IF answer.ok THEN None ELSE answer.name

\* getPermission's catch block: the state given to a caught error.
ErrorStateInvalidOnly(name) == "invalid"
ErrorStateSwapped(name) == IF name = "TypeError" THEN "invalid" ELSE "unsupported"
ErrorStateUnsupportedOnly(name) == "unsupported"
ErrorStateRaw(name) == name

ErrorState(name) == IF name = "TypeError" THEN "unsupported" ELSE "invalid"

\* How getPermission settles its promise: resolve(_status) or reject({...}).
SettleResolveAlways(raised) == "resolved"

SettleKind(raised) == IF raised = None THEN "resolved" ELSE "rejected"

\* The state of the value getPermission settles with.
SettledStateFirstOnly(answer) ==
  IF Caught(answer) = None THEN answer.state
  ELSE IF \E i \in 1..Len(calls) : calls[i].promise = "rejected" THEN "invalid"
  ELSE ErrorState(Caught(answer))

SettledState(answer) ==
  IF Caught(answer) = None THEN answer.state ELSE ErrorState(Caught(answer))

\* Call c with its getPermission promise settled on the provider's answer; a
\* direct call also notes how many changes of the host preceded its answer.
Settled(c, answer) ==
  [c EXCEPT !.promise = SettleKind(Caught(answer)),
            !.raised = Caught(answer),
            !.state = SettledState(answer),
            !.epoch = IF c.kind = "query" THEN nChanges ELSE 0]

\* A new getPermission call, its promise pending.
NewCallReturnsPromise(kind, h, option) ==
  [kind |-> kind, h |-> h, option |-> option, promise |-> "pending",
   raised |-> None, state |-> None, epoch |-> 0,
   onchange |-> FALSE, slotsAt |-> EmptyEvents,
   slotsAtStart |-> IF cap.history /\ h # 0 THEN events[h] ELSE EmptyEvents,
   result |-> "pending",
   granted |-> None, denied |-> None, reason |-> None]

NewCall(kind, h, option) ==
  [kind |-> kind, h |-> h, option |-> option, promise |-> "pending",
   raised |-> None, state |-> None, epoch |-> 0,
   onchange |-> FALSE, slotsAt |-> EmptyEvents,
   slotsAtStart |-> IF cap.history /\ h # 0 THEN events[h] ELSE EmptyEvents,
   result |-> IF kind = "async" THEN "pending" ELSE None,
   granted |-> None, denied |-> None, reason |-> None]

\* getPermission is entered: one provider query, if there is a provider.
StartCallCoalesced(kind, h, option) ==
  /\ Len(calls) < cap.calls
  /\ calls' = Append(calls, NewCall(kind, h, option))
  /\ providerCalls' =
       IF permissions /\ ~\E i \in 1..Len(calls) :
                            calls[i].option = option /\ calls[i].promise = "pending"
       THEN providerCalls + 1 ELSE providerCalls

StartCall(kind, h, option) ==
  /\ Len(calls) < cap.calls
  /\ calls' = Append(calls, NewCall(kind, h, option))
  /\ providerCalls' = IF permissions THEN providerCalls + 1 ELSE providerCalls

\* A direct call of PermissionsAPI.getPermission(option).
GetPermission(option) ==
  /\ StartCall("query", 0, option)
  /\ UNCHANGED <<permissions, provState, handlers, events, log, supportCheck,
                 nRegs, lastReg, nChanges, cap>>

----------------------------------------------------------------------------
\* The own properties of a handler function when its constructor returns:
\* the four registration methods.
OwnMethods == [n \in SlotNames |-> "method"]

\* Object.freeze(handler).
FreezeNot(handler) == handler

Freeze(handler) == [handler EXCEPT !.frozen = TRUE]

\* #getHandler / getPermissionHandler: a new sync handler with an empty
\* HandlerEvents record of its own.
GetPermissionHandlerInherits(permissionOption, handlerOption) ==
  /\ Len(handlers) < cap.handlers
  /\ handlers' = Append(handlers,
                        Freeze([flavour |-> "sync", option |-> permissionOption,
                                handlerOption |-> handlerOption,
                                own |-> OwnMethods, frozen |-> FALSE,
                                attempts |-> 0, refused |-> 0]))
  /\ events' = Append(events, IF Len(events) > 0 THEN events[Len(events)]
                                                 ELSE EmptyEvents)
  /\ UNCHANGED <<permissions, provState, calls, log, supportCheck,
                 providerCalls, nRegs, lastReg, nChanges, cap>>

GetPermissionHandler(permissionOption, handlerOption) ==
  /\ Len(handlers) < cap.handlers
  /\ handlers' = Append(handlers,
                        Freeze([flavour |-> "sync", option |-> permissionOption,
                                handlerOption |-> handlerOption,
                                own |-> OwnMethods, frozen |-> FALSE,
                                attempts |-> 0, refused |-> 0]))
  /\ events' = Append(events, EmptyEvents)
  /\ UNCHANGED <<permissions, provState, calls, log, supportCheck,
                 providerCalls, nRegs, lastReg, nChanges, cap>>

\* #getAsyncHandler / getAsyncPermissionHandler.
GetAsyncPermissionHandler(permissionOption) ==
  /\ Len(handlers) < cap.handlers
  /\ handlers' = Append(handlers,
                        Freeze([flavour |-> "async", option |-> permissionOption,
                                handlerOption |-> NoOption,
                                own |-> OwnMethods, frozen |-> FALSE,
                                attempts |-> 0, refused |-> 0]))
  /\ events' = Append(events, EmptyEvents)
  /\ UNCHANGED <<permissions, provState, calls, log, supportCheck,
                 providerCalls, nRegs, lastReg, nChanges, cap>>

\* handler.<slot>(callback): #events.get(handler).<slot> = callback.
SetSlotShared(h, slot, callback) ==
  /\ h \in 1..Len(handlers)
  /\ nRegs < cap.regs
  /\ nRegs' = nRegs + 1
  /\ lastReg' = [h |-> h, slot |-> slot, callback |-> callback]
  /\ events' = [k \in 1..Len(events) |-> [events[k] EXCEPT ![slot] = callback]]
  /\ UNCHANGED <<permissions, provState, handlers, calls, log, supportCheck,
                 providerCalls, nChanges, cap>>
SetSlotKeepFirst(h, slot, callback) ==
  /\ h \in 1..Len(handlers)
  /\ nRegs < cap.regs
  /\ nRegs' = nRegs + 1
  /\ lastReg' = [h |-> h, slot |-> slot, callback |-> callback]
  /\ events' = IF events[h][slot] = None
               THEN [events EXCEPT ![h][slot] = callback] ELSE events
  /\ UNCHANGED <<permissions, provState, handlers, calls, log, supportCheck,
                 providerCalls, nChanges, cap>>

SetSlotResets(h, slot, callback) ==
  /\ h \in 1..Len(handlers)
  /\ nRegs < cap.regs
  /\ nRegs' = nRegs + 1
  /\ lastReg' = [h |-> h, slot |-> slot, callback |-> callback]
  /\ events' = [events EXCEPT ![h] = [EmptyEvents EXCEPT ![slot] = callback]]
  /\ UNCHANGED <<permissions, provState, handlers, calls, log, supportCheck,
                 providerCalls, nChanges, cap>>

SetSlot(h, slot, callback) ==
  /\ h \in 1..Len(handlers)
  /\ nRegs < cap.regs
  /\ nRegs' = nRegs + 1
  /\ lastReg' = [h |-> h, slot |-> slot, callback |-> callback]
  /\ events' = [events EXCEPT ![h][slot] = callback]
  /\ UNCHANGED <<permissions, provState, handlers, calls, log, supportCheck,
                 providerCalls, nChanges, cap>>

OnPermissionChange(h, callback) == SetSlot(h, "onPermissionChange", callback)
OnPermissionGranted(h, callback) == SetSlot(h, "onPermissionGranted", callback)
OnPermissionDenied(h, callback) == SetSlot(h, "onPermissionDenied", callback)
OnPermissionError(h, callback) == SetSlot(h, "onPermissionError", callback)

\* Invoking a sync handler: _handler() calls getPermission and returns.
HandlerOnce(h) ==
  /\ h \in 1..Len(handlers)
  /\ handlers[h].flavour = "sync"
  /\ \A i \in 1..Len(calls) : calls[i].h = h => calls[i].promise = "pending"
  /\ StartCall("sync", h, handlers[h].option)
  /\ UNCHANGED <<permissions, provState, handlers, events, log, supportCheck,
                 nRegs, lastReg, nChanges, cap>>

Handler(h) ==
  /\ h \in 1..Len(handlers)
  /\ handlers[h].flavour = "sync"
  /\ StartCall("sync", h, handlers[h].option)
  /\ UNCHANGED <<permissions, provState, handlers, events, log, supportCheck,
                 nRegs, lastReg, nChanges, cap>>

\* Invoking an async handler: returns a new pending promise.
AsyncHandler(h) ==
  /\ h \in 1..Len(handlers)
  /\ handlers[h].flavour = "async"
  /\ StartCall("async", h, handlers[h].option)
  /\ UNCHANGED <<permissions, provState, handlers, events, log, supportCheck,
                 nRegs, lastReg, nChanges, cap>>

----------------------------------------------------------------------------
\* One callback invocation, as recorded in the log.
Entry(cb, fn, h, i, arg, src) ==
  [cb |-> cb, fn |-> fn, h |-> h, call |-> i, arg |-> arg, src |-> src]

\* What a caller may try on a handler object: assign a property, existing or
\* new, or delete one.
AssignableProps == {"onPermissionChange", "extra"}
AssignedValues == {"replaced", "deleted"}

\* handler[prop] = value, or delete handler[prop], on an object: a frozen
\* object stays as it is.
SetOwn(handler, prop, value) ==
  IF handler.frozen THEN handler
  ELSE IF value = "deleted"
  THEN [handler EXCEPT !.own = [p \in DOMAIN handler.own \ {prop} |-> handler.own[p]]]
  ELSE [handler EXCEPT !.own = [p \in DOMAIN handler.own \cup {prop} |->
                                  IF p = prop THEN value ELSE handler.own[p]]]

\* A caller's attempt to change a handler object; in the module's strict
\* mode the attempt on a frozen object raises a TypeError, counted in refused.
AssignOwn(h, prop, value) ==
  /\ h \in 1..Len(handlers)
  /\ handlers[h].attempts < cap.assigns
  /\ handlers' = [handlers EXCEPT ![h] =
                    [SetOwn(handlers[h], prop, value) EXCEPT
                       !.attempts = @ + 1,
                       !.refused = IF handlers[h].frozen THEN @ + 1 ELSE @]]
  /\ UNCHANGED <<permissions, provState, events, calls, log, supportCheck,
                 providerCalls, nRegs, lastReg, nChanges, cap>>

\* Run the candidate callbacks <<slot name, callback>> in order: an empty one
\* is skipped, one that raises ends the run.
RECURSIVE Run(_, _, _, _, _)
Run(cands, h, i, arg, src) ==
  IF cands = <<>> THEN [log |-> <<>>, raised |-> FALSE]
  ELSE LET c == Head(cands) IN
       IF c[2] = None THEN Run(Tail(cands), h, i, arg, src)
       ELSE IF Raises(c[2])
            THEN [log |-> <<Entry(c[1], c[2], h, i, arg, src)>>, raised |-> TRUE]
            ELSE LET r == Run(Tail(cands), h, i, arg, src) IN
                 [log |-> <<Entry(c[1], c[2], h, i, arg, src)>> \o r.log,
                  raised |-> r.raised]

\* The branch taken on a status' state by both handlers and listeners.
IsDeniedPromptToo(st) == st \in {"denied", "prompt"}

IsDenied(st) == st = "denied"

\* Sync handler, .then: the callbacks for a status in state st.
SyncThenOptionsFirst(ev, opt, st) ==
  IF IsDenied(st)
  THEN << <<"options.denied", opt.denied>>,
          <<"onPermissionDenied", ev.onPermissionDenied>> >>
  ELSE << <<"options.granted", opt.granted>>,
          <<"onPermissionGranted", ev.onPermissionGranted>> >>
SyncThenBoth(ev, opt, st) ==
  << <<"onPermissionDenied", IF IsDenied(st) THEN ev.onPermissionDenied ELSE None>>,
     <<"options.denied", opt.denied>>,
     <<"onPermissionGranted", IF IsDenied(st) THEN None ELSE ev.onPermissionGranted>>,
     <<"options.granted", IF IsDenied(st) THEN None ELSE opt.granted>> >>

SyncThen(ev, opt, st) ==
  IF IsDenied(st)
  THEN << <<"onPermissionDenied", ev.onPermissionDenied>>,
          <<"options.denied", opt.denied>> >>
  ELSE << <<"onPermissionGranted", ev.onPermissionGranted>>,
          <<"options.granted", opt.granted>> >>

\* Sync handler, .catch.
SyncCatchToDenied(ev, opt) ==
  << <<"onPermissionError", ev.onPermissionError>>,
     <<"options.error", opt.error>>,
     <<"options.denied", opt.denied>> >>

SyncCatch(ev, opt) ==
  << <<"onPermissionError", ev.onPermissionError>>,
     <<"options.error", opt.error>> >>

\* Sync handler, the onchange listener for a status now in state st.
SyncOnChangeBothWays(ev, opt, st) ==
  (IF IsDenied(st)
   THEN << <<"onPermissionDenied", ev.onPermissionDenied>>,
           <<"options.denied", opt.denied>> >>
   ELSE << <<"onPermissionGranted", ev.onPermissionGranted>>,
           <<"options.granted", opt.granted>> >>)
  \o << <<"onPermissionChange", ev.onPermissionChange>> >>

SyncOnChange(ev, opt, st) ==
  (IF IsDenied(st)
   THEN << <<"onPermissionDenied", ev.onPermissionDenied>>,
           <<"options.denied", opt.denied>> >>
   ELSE <<>>)
  \o << <<"onPermissionChange", ev.onPermissionChange>> >>

\* Async handler, .then.
AsyncThen(ev, st) ==
  IF IsDenied(st)
  THEN << <<"onPermissionDenied", ev.onPermissionDenied>> >>
  ELSE << <<"onPermissionGranted", ev.onPermissionGranted>> >>

\* Async handler, .catch.
AsyncCatchSilent(ev) == <<>>

AsyncCatch(ev) == << <<"onPermissionError", ev.onPermissionError>> >>

\* Async handler, the onchange listener.
AsyncOnChangeFirst(ev, st) ==
  << <<"onPermissionChange", ev.onPermissionChange>> >>
  \o (IF IsDenied(st)
      THEN << <<"onPermissionDenied", ev.onPermissionDenied>> >>
      ELSE <<>>)

AsyncOnChange(ev, st) ==
  (IF IsDenied(st)
   THEN << <<"onPermissionDenied", ev.onPermissionDenied>> >>
   ELSE <<>>)
  \o << <<"onPermissionChange", ev.onPermissionChange>> >>

\* The promise reactions of a sync handler with slots ev and options opt to
\* the settled call c: what they log.
SyncDeliveryNoCatch(c, i, ev, opt) ==
  IF c.promise = "resolved"
  THEN Run(SyncThen(ev, opt, c.state), c.h, i, c.state, "outcome").log
  ELSE Run(SyncCatch(ev, opt), c.h, i, c.state, "outcome").log

SyncDelivery(c, i, ev, opt) ==
  IF c.promise = "resolved"
  THEN LET r == Run(SyncThen(ev, opt, c.state), c.h, i, c.state, "outcome") IN
       IF r.raised
       THEN r.log \o Run(SyncCatch(ev, opt), c.h, i, Thrown, "outcome").log
       ELSE r.log
  ELSE Run(SyncCatch(ev, opt), c.h, i, c.state, "outcome").log

\* The promise reactions of a sync invocation: what they log.
SyncReactionsEarly(c, i) ==
  SyncDelivery(c, i, c.slotsAtStart, handlers[c.h].handlerOption)

SyncReactions(c, i) ==
  SyncDelivery(c, i, events[c.h], handlers[c.h].handlerOption)

\* The AsyncPermissionResponse an async invocation resolves with.
AsyncResponseBoth(st) == [granted |-> st, denied |-> st]

AsyncResponse(st) ==
  IF IsDenied(st) THEN [granted |-> "null", denied |-> st]
  ELSE [granted |-> st, denied |-> "null"]

\* The promise reactions of an async invocation: what they log and how they
\* settle the promise the invocation returned.
AsyncReactionsSettleFirst(c, i) ==
  LET ev == events[c.h]
      Resolve == Entry("resolve", None, c.h, i, c.state, "outcome")
      Reject(arg) == Entry("reject", None, c.h, i, arg, "outcome")
      Failed(pre, arg) ==
        LET r == Run(AsyncCatch(ev), c.h, i, arg, "outcome") IN
        [log |-> pre \o <<Reject(arg)>> \o r.log, result |-> "rejected",
         granted |-> None, denied |-> None, reason |-> arg]
  IN IF c.promise = "resolved"
     THEN LET r == Run(AsyncThen(ev, c.state), c.h, i, c.state, "outcome") IN
          [log |-> <<Resolve>> \o r.log, result |-> "resolved",
           granted |-> AsyncResponse(c.state).granted,
           denied |-> AsyncResponse(c.state).denied,
           reason |-> None]
     ELSE Failed(<<>>, c.state)

AsyncReactions(c, i) ==
  LET ev == events[c.h]
      Resolve == Entry("resolve", None, c.h, i, c.state, "outcome")
      Reject(arg) == Entry("reject", None, c.h, i, arg, "outcome")
      Failed(pre, arg) ==
        LET r == Run(AsyncCatch(ev), c.h, i, arg, "outcome") IN
        IF r.raised
        THEN [log |-> pre \o r.log, result |-> "pending",
              granted |-> None, denied |-> None, reason |-> None]
        ELSE [log |-> pre \o r.log \o <<Reject(arg)>>, result |-> "rejected",
              granted |-> None, denied |-> None, reason |-> arg]
  IN IF c.promise = "resolved"
     THEN LET r == Run(AsyncThen(ev, c.state), c.h, i, c.state, "outcome") IN
          IF r.raised THEN Failed(r.log, Thrown)
          ELSE [log |-> r.log \o <<Resolve>>, result |-> "resolved",
                granted |-> AsyncResponse(c.state).granted,
                denied |-> AsyncResponse(c.state).denied,
                reason |-> None]
     ELSE Failed(<<>>, c.state)

\* Whether the .then callback sets _permission.onchange.
AttachesAlways(c) == c.promise = "resolved"

Attaches(c) ==
  /\ c.promise = "resolved"
  /\ events[c.h].onPermissionChange # None

\* The provider's query of call i completes (or, without a provider, the
\* TypeError of the call is caught) and the promise of getPermission settles.
\* For a handler's call the reactions .then/.catch run in the same microtask
\* checkpoint, before any other task of the caller or the host.
ProviderRespond(i) ==
  /\ i \in 1..Len(calls)
  /\ calls[i].promise = "pending"
  /\ \E answer \in Query(calls[i].option) :
       LET c == Settled(calls[i], answer) IN
       IF c.kind = "query"
       THEN /\ calls' = [calls EXCEPT ![i] = c]
            /\ log' = log
       ELSE IF c.kind = "sync"
       THEN /\ log' = log \o SyncReactions(c, i)
            /\ calls' = [calls EXCEPT ![i] =
                           [c EXCEPT !.onchange = Attaches(c),
                                     !.slotsAt = events[c.h]]]
       ELSE LET a == AsyncReactions(c, i) IN
            /\ log' = log \o a.log
            /\ calls' = [calls EXCEPT ![i] =
                           [c EXCEPT !.onchange = Attaches(c),
                                     !.slotsAt = events[c.h],
                                     !.result = a.result,
                                     !.granted = a.granted,
                                     !.denied = a.denied,
                                     !.reason = a.reason]]
  /\ UNCHANGED <<permissions, provState, handlers, events, supportCheck,
                 providerCalls, nRegs, lastReg, nChanges, cap>>

\* The change event of one status object: its onchange listener, if any.
ListenerStale(i, st) ==
  LET c == calls[i]
      ev == events[c.h]
  IN IF c.kind = "sync"
     THEN Run(SyncOnChange(ev, handlers[c.h].handlerOption, c.state),
              c.h, i, c.state, "change").log
     ELSE Run(AsyncOnChange(ev, c.state), c.h, i, c.state, "change").log

ListenerShared(i, st) ==
  LET c == calls[i]
      ev == events[c.h]
  IN IF \E j \in (i + 1)..Len(calls) :
          /\ calls[j].promise = "resolved"
          /\ calls[j].option = c.option
          /\ calls[j].h # c.h
     THEN <<>>
     ELSE IF c.kind = "sync"
     THEN Run(SyncOnChange(ev, handlers[c.h].handlerOption, st), c.h, i, st, "change").log
     ELSE Run(AsyncOnChange(ev, st), c.h, i, st, "change").log

Listener(i, st) ==
  LET c == calls[i]
      ev == events[c.h]
  IN IF c.kind = "sync"
     THEN Run(SyncOnChange(ev, handlers[c.h].handlerOption, st), c.h, i, st, "change").log
     ELSE Run(AsyncOnChange(ev, st), c.h, i, st, "change").log

\* The change events of all status objects of a name, in creation order.
FireChangeLatest(i, name, st) ==
  LET L == {j \in 1..Len(calls) : calls[j].onchange /\ calls[j].option = name}
  IN IF L = {} THEN <<>>
     ELSE Listener(CHOOSE j \in L : \A k \in L : k <= j, st)

RECURSIVE FireChange(_, _, _)
FireChange(i, name, st) ==
  IF i > Len(calls) THEN <<>>
  ELSE (IF calls[i].onchange /\ calls[i].option = name
        THEN Listener(i, st) ELSE <<>>)
       \o FireChange(i + 1, name, st)

\* The host's decision for a name changes; every status object of that name
\* gets the new state and a change event.
ProviderChangeClears(name, st) ==
  /\ permissions
  /\ nChanges < cap.changes
  /\ name \in RecognizedNames
  /\ st # provState[name]
  /\ provState' = [provState EXCEPT ![name] = st]
  /\ nChanges' = nChanges + 1
  /\ log' = log \o FireChange(1, name, st)
  /\ events' = [h \in 1..Len(events) |-> EmptyEvents]
  /\ UNCHANGED <<permissions, handlers, calls, supportCheck,
                 providerCalls, nRegs, lastReg, cap>>

ProviderChange(name, st) ==
  /\ permissions
  /\ nChanges < cap.changes
  /\ name \in RecognizedNames
  /\ st # provState[name]
  /\ provState' = [provState EXCEPT ![name] = st]
  /\ nChanges' = nChanges + 1
  /\ log' = log \o FireChange(1, name, st)
  /\ UNCHANGED <<permissions, handlers, events, calls, supportCheck,
                 providerCalls, nRegs, lastReg, cap>>

----------------------------------------------------------------------------
\* The state when the module has been loaded: no handler, no call.
InitWith(c) ==
  /\ permissions \in BOOLEAN
  /\ provState \in [RecognizedNames -> ProviderStates]
  /\ handlers = <<>>
  /\ events = <<>>
  /\ calls = <<>>
  /\ log = <<>>
  /\ supportCheck = [throwError |-> FALSE, result |-> None]
  /\ providerCalls = 0
  /\ nRegs = 0
  /\ lastReg = [h |-> 0, slot |-> None, callback |-> None]
  /\ nChanges = 0
  /\ cap = c

\* Direct callers of getPermission and isSupported.
InitQuery ==
  InitWith([handlers |-> 0, calls |-> MaxCalls, regs |-> 0, changes |-> MaxChanges, assigns |-> 0,
            history |-> FALSE])

NextQuery ==
  \/ \E t \in BOOLEAN : IsSupported(t)
  \/ \E o \in PermissionOption : GetPermission(o)
  \/ \E i \in 1..MaxCalls : ProviderRespond(i)
  \/ \E n \in RecognizedNames, st \in ProviderStates : ProviderChange(n, st)

SpecQuery == InitQuery /\ [][NextQuery]_vars

\* A caller with one handler, sync or async, that registers outcome callbacks
\* and invokes the handler; the host's decision stays as it is.
InitOutcome ==
  InitWith([handlers |-> 1, calls |-> MaxCalls, regs |-> MaxRegs, changes |-> 0, assigns |-> 0,
            history |-> FALSE])

NextOutcome ==
  \/ \E o \in HandlerRequests, ho \in HandlerOptions : GetPermissionHandler(o, ho)
  \/ \E o \in HandlerRequests : GetAsyncPermissionHandler(o)
  \/ \E h \in HandlerIds, cb \in Callbacks : OnPermissionChange(h, cb)
  \/ \E h \in HandlerIds, cb \in Callbacks : OnPermissionGranted(h, cb)
  \/ \E h \in HandlerIds, cb \in Callbacks : OnPermissionDenied(h, cb)
  \/ \E h \in HandlerIds, cb \in Callbacks : OnPermissionError(h, cb)
  \/ \E h \in HandlerIds : Handler(h)
  \/ \E h \in HandlerIds : AsyncHandler(h)
  \/ \E i \in 1..MaxCalls : ProviderRespond(i)

SpecOutcome == InitOutcome /\ [][NextOutcome]_vars

\* A caller with one handler that registers onPermissionChange and
\* onPermissionDenied and invokes the handler, while the host's decision changes.
InitChange ==
  InitWith([handlers |-> 1, calls |-> ChangeCalls, regs |-> ChangeRegs,
            changes |-> MaxChanges, assigns |-> 0,
            history |-> FALSE])

NextChange ==
  \/ \E o \in HandlerRequests, ho \in HandlerOptions : GetPermissionHandler(o, ho)
  \/ \E o \in HandlerRequests : GetAsyncPermissionHandler(o)
  \/ \E h \in HandlerIds, cb \in Callbacks : OnPermissionChange(h, cb)
  \/ \E h \in HandlerIds, cb \in Callbacks : OnPermissionDenied(h, cb)
  \/ \E h \in HandlerIds : Handler(h)
  \/ \E h \in HandlerIds : AsyncHandler(h)
  \/ \E i \in 1..ChangeCalls : ProviderRespond(i)
  \/ \E n \in RecognizedNames, st \in ProviderStates : ProviderChange(n, st)

SpecChange == InitChange /\ [][NextChange]_vars

\* A caller that invokes one handler repeatedly, with onPermissionChange
\* registered, while the host's decision changes.
InitRepeat ==
  InitWith([handlers |-> 1, calls |-> MaxCalls, regs |-> MaxRegs,
            changes |-> MaxChanges, assigns |-> 0,
            history |-> FALSE])

NextRepeat ==
  \/ \E o \in HandlerRequests, ho \in HandlerOptions : GetPermissionHandler(o, ho)
  \/ \E o \in HandlerRequests : GetAsyncPermissionHandler(o)
  \/ \E h \in HandlerIds, cb \in Callbacks : OnPermissionChange(h, cb)
  \/ \E h \in HandlerIds : Handler(h)
  \/ \E h \in HandlerIds : AsyncHandler(h)
  \/ \E i \in 1..MaxCalls : ProviderRespond(i)
  \/ \E n \in RecognizedNames, st \in ProviderStates : ProviderChange(n, st)

SpecRepeat == InitRepeat /\ [][NextRepeat]_vars

\* Callbacks that return, and options made of them.
Returning == {cb \in Callbacks : ~Raises(cb)}
PairOptions == {ho \in HandlerOptions : \A f \in DOMAIN ho : ho[f] \in Returning}

\* A caller that uses every operation of the facade on one handler, with
\* callbacks that return, and tries to change the handler object.
InitFacade ==
  InitWith([handlers |-> 1, calls |-> FacadeCalls, regs |-> MaxRegs,
            changes |-> FacadeChanges, assigns |-> MaxAssigns,
            history |-> FALSE])

NextFacade ==
  \/ \E o \in PermissionOption : GetPermission(o)
  \/ \E o \in HandlerRequests, ho \in PairOptions : GetPermissionHandler(o, ho)
  \/ \E o \in HandlerRequests : GetAsyncPermissionHandler(o)
  \/ \E h \in HandlerIds, cb \in Returning : OnPermissionChange(h, cb)
  \/ \E h \in HandlerIds, cb \in Returning : OnPermissionGranted(h, cb)
  \/ \E h \in HandlerIds, cb \in Returning : OnPermissionDenied(h, cb)
  \/ \E h \in HandlerIds, cb \in Returning : OnPermissionError(h, cb)
  \/ \E h \in HandlerIds, p \in AssignableProps, v \in AssignedValues : AssignOwn(h, p, v)
  \/ \E h \in HandlerIds : Handler(h)
  \/ \E h \in HandlerIds : AsyncHandler(h)
  \/ \E i \in 1..FacadeCalls : ProviderRespond(i)
  \/ \E n \in RecognizedNames, st \in ProviderStates : ProviderChange(n, st)

SpecFacade == InitFacade /\ [][NextFacade]_vars

\* A caller with one async handler that registers any callbacks and invokes
\* the handler, while the host's decision changes.
InitAsync ==
  InitWith([handlers |-> 1, calls |-> FacadeCalls, regs |-> ChangeRegs,
            changes |-> FacadeChanges, assigns |-> 0,
            history |-> FALSE])

NextAsync ==
  \/ \E o \in HandlerRequests : GetAsyncPermissionHandler(o)
  \/ \E h \in HandlerIds, cb \in Callbacks : OnPermissionChange(h, cb)
  \/ \E h \in HandlerIds, cb \in Callbacks : OnPermissionGranted(h, cb)
  \/ \E h \in HandlerIds, cb \in Callbacks : OnPermissionDenied(h, cb)
  \/ \E h \in HandlerIds, cb \in Callbacks : OnPermissionError(h, cb)
  \/ \E h \in HandlerIds : AsyncHandler(h)
  \/ \E i \in 1..FacadeCalls : ProviderRespond(i)
  \/ \E n \in RecognizedNames, st \in ProviderStates : ProviderChange(n, st)

SpecAsync == InitAsync /\ [][NextAsync]_vars

\* A caller with two handlers for the same request, whose callbacks return.

InitPair ==
  InitWith([handlers |-> 2, calls |-> PairCalls, regs |-> MaxRegs,
            changes |-> PairChanges, assigns |-> 0,
            history |-> FALSE])

NextPair ==
  \/ \E o \in HandlerRequests, ho \in PairOptions : GetPermissionHandler(o, ho)
  \/ \E o \in HandlerRequests : GetAsyncPermissionHandler(o)
  \/ \E h \in HandlerIds, cb \in Returning : OnPermissionChange(h, cb)
  \/ \E h \in HandlerIds, cb \in Returning : OnPermissionGranted(h, cb)
  \/ \E h \in HandlerIds, cb \in Returning : OnPermissionDenied(h, cb)
  \/ \E h \in HandlerIds, cb \in Returning : OnPermissionError(h, cb)
  \/ \E h \in HandlerIds : Handler(h)
  \/ \E h \in HandlerIds : AsyncHandler(h)
  \/ \E i \in 1..PairCalls : ProviderRespond(i)
  \/ \E n \in RecognizedNames, st \in ProviderStates : ProviderChange(n, st)

SpecPair == InitPair /\ [][NextPair]_vars

\* A caller with two handlers for the same permission that registers
\* onPermissionChange and invokes each of them, while the host's decision
\* changes.
InitCross ==
  InitWith([handlers |-> 2, calls |-> CrossCalls, regs |-> MaxRegs,
            changes |-> PairChanges, assigns |-> 0,
            history |-> FALSE])

NextCross ==
  \/ \E o \in HandlerRequests : GetPermissionHandler(o, NoOption)
  \/ \E o \in HandlerRequests : GetAsyncPermissionHandler(o)
  \/ \E h \in HandlerIds, cb \in Returning : OnPermissionChange(h, cb)
  \/ \E h \in HandlerIds : Handler(h)
  \/ \E h \in HandlerIds : AsyncHandler(h)
  \/ \E i \in 1..CrossCalls : ProviderRespond(i)
  \/ \E n \in RecognizedNames, st \in ProviderStates : ProviderChange(n, st)

SpecCross == InitCross /\ [][NextCross]_vars

\* A caller that registers callbacks while an invocation is under way: every
\* call keeps, for comparison, the slots as they were when it started.
InitLate ==
  InitWith([handlers |-> 1, calls |-> FacadeCalls, regs |-> ChangeRegs,
            changes |-> FacadeChanges, assigns |-> 0,
            history |-> TRUE])

NextLate ==
  \/ \E o \in HandlerRequests : GetPermissionHandler(o, NoOption)
  \/ \E o \in HandlerRequests : GetAsyncPermissionHandler(o)
  \/ \E h \in HandlerIds, cb \in Callbacks : OnPermissionChange(h, cb)
  \/ \E h \in HandlerIds, cb \in Callbacks : OnPermissionGranted(h, cb)
  \/ \E h \in HandlerIds, cb \in Callbacks : OnPermissionDenied(h, cb)
  \/ \E h \in HandlerIds : Handler(h)
  \/ \E h \in HandlerIds : AsyncHandler(h)
  \/ \E i \in 1..FacadeCalls : ProviderRespond(i)
  \/ \E n \in RecognizedNames, st \in ProviderStates : ProviderChange(n, st)

SpecLate == InitLate /\ [][NextLate]_vars

----------------------------------------------------------------------------
\* Vocabulary of the properties.
SettledCalls == {i \in 1..Len(calls) : calls[i].promise # "pending"}
FailedCalls == {i \in 1..Len(calls) : calls[i].raised # None}

----------------------------------------------------------------------------
\* C1: the value every getPermission call settles with has a state among
\* granted, prompt, denied, unsupported, invalid; a status carries one of the
\* first three and an error one of the last two.
C1_OutcomeStates ==
  \A i \in SettledCalls :
    /\ calls[i].state \in ProviderStates \cup ErrorStates
    /\ calls[i].raised = None => calls[i].state \in ProviderStates
    /\ calls[i].raised # None => calls[i].state \in ErrorStates

C1_Witness ==
  \E i, j \in SettledCalls :
    /\ calls[i].raised = None /\ calls[i].state = "prompt"
    /\ calls[j].raised = "InvalidStateError" /\ calls[j].state = "invalid"

\* C2 as claimed: after a provider failure the promise of getPermission is
\* resolved with the error outcome.
C2_FailureResolves ==
  \A i \in FailedCalls : calls[i].promise = "resolved"

\* C2 as amended: after a provider failure the promise of getPermission is
\* rejected with the classified error outcome, never resolved and never left
\* pending; and it is rejected for no other reason.
C2_FailureRejects ==
  /\ \A i \in FailedCalls :
       calls[i].promise = "rejected" /\ calls[i].state \in ErrorStates
  /\ \A i \in SettledCalls :
       calls[i].promise = "rejected" => calls[i].raised # None

C2_Witness ==
  \E i \in FailedCalls :
    /\ permissions
    /\ calls[i].option \in RecognizedNames
    /\ calls[i].promise = "rejected"

C4_UnknownNameUnsupported ==
  \A i \in SettledCalls :
    calls[i].option \in UnknownNames =>
      /\ calls[i].promise = "rejected"
      /\ calls[i].state = "unsupported"
      /\ calls[i].state \notin ProviderStates

C4_Witness ==
  \E i \in SettledCalls : permissions /\ calls[i].option \in UnknownNames

\* C5: a failure with any name other than TypeError gives the state "invalid",
\* and an error outcome never has a state other than unsupported or invalid.
C5_OtherFailuresInvalid ==
  \A i \in FailedCalls :
    /\ calls[i].raised # "TypeError" => calls[i].state = "invalid"
    /\ calls[i].state \in ErrorStates

C5_Witness ==
  \E i, j \in FailedCalls :
    /\ calls[i].raised = "NotSupportedError"
    /\ calls[j].raised = "InvalidStateError"

\* C6: without navigator.permissions every getPermission call settles with
\* the error outcome "unsupported", whatever the option.
C6_AbsentUnsupported ==
  ~permissions =>
    \A i \in SettledCalls :
      calls[i].promise = "rejected" /\ calls[i].state = "unsupported"

C6_Witness ==
  /\ ~permissions
  /\ \E i \in SettledCalls : calls[i].option \in RecognizedNames

\* The result of isSupported(throwError): true exactly when the provider is
\* present; false or a throw (by throwError) when it is absent.
C7_Result ==
  supportCheck.result # None =>
    /\ supportCheck.result = "true" <=> permissions
    /\ ~permissions /\ ~supportCheck.throwError => supportCheck.result = "false"
    /\ ~permissions /\ supportCheck.throwError => supportCheck.result = "throws"

\* C7: the result above holds after every call, and a call of isSupported
\* leaves all other state unchanged.
C7_IsSupported ==
  /\ []C7_Result
  /\ [][supportCheck' # supportCheck =>
          UNCHANGED <<permissions, provState, handlers, events, calls, log,
                      providerCalls, nRegs, lastReg, nChanges, cap>>]_vars

C7_Witness ==
  /\ supportCheck.throwError
  /\ supportCheck.result = "throws"
  /\ Len(calls) > 0

----------------------------------------------------------------------------
\* Vocabulary of the handler properties.
HandlerCalls(flavour) ==
  {i \in SettledCalls : calls[i].kind = flavour}

\* How often callback cb ran while the outcome of call i was delivered.
Count(i, cb) ==
  Len(SelectSeq(log, LAMBDA e : e.call = i /\ e.src = "outcome" /\ e.cb = cb))

\* A callback raised while the outcome of call i was delivered.
RaisedIn(i) ==
  \E k \in 1..Len(log) :
    log[k].call = i /\ log[k].src = "outcome" /\ Raises(log[k].fn)

\* The path a settled call belongs on: of its status, or of its error.
PathOf(c) ==
  IF c.promise = "rejected" THEN "Error"
  ELSE IF c.state = "denied" THEN "Denied" ELSE "Granted"

SlotOf(path) == "onPermission" \o path
OptionOf(path) ==
  IF path = "Granted" THEN "options.granted"
  ELSE IF path = "Denied" THEN "options.denied" ELSE "options.error"
Supplied(opt, path) ==
  IF path = "Granted" THEN opt.granted
  ELSE IF path = "Denied" THEN opt.denied ELSE opt.error
Other(path) == {"Granted", "Denied", "Error"} \ {path}

\* C8: in both flavours a status in state granted or prompt goes down the
\* granted path (onPermissionGranted, options.granted, the async field
\* granted) and a status in state denied down the denied path; no callback of
\* the other of the two paths runs, and prompt never reaches the denied path.
C8_Routing ==
  /\ \A k \in 1..Len(log) :
       log[k].src = "outcome" =>
         /\ log[k].cb \in {"onPermissionGranted", "options.granted"}
              => log[k].arg \in {"granted", "prompt"}
         /\ log[k].cb \in {"onPermissionDenied", "options.denied"}
              => log[k].arg = "denied"
  /\ \A i \in HandlerCalls("sync") \cup HandlerCalls("async") :
       LET c == calls[i]
           path == PathOf(c)
           slot == c.slotsAt[SlotOf(path)]
       IN c.promise = "resolved" =>
            /\ path = (IF c.state \in {"granted", "prompt"} THEN "Granted" ELSE "Denied")
            /\ \A q \in {"Granted", "Denied"} \ {path} :
                 Count(i, SlotOf(q)) = 0 /\ Count(i, OptionOf(q)) = 0
            /\ slot # None => Count(i, SlotOf(path)) = 1
            /\ c.kind = "sync" /\ ~Raises(slot)
                 /\ Supplied(handlers[c.h].handlerOption, path) # None
                 => Count(i, OptionOf(path)) = 1
            /\ c.kind = "async" /\ ~Raises(slot) =>
                 /\ c.result = "resolved"
                 /\ path = "Granted" => c.granted = c.state /\ c.denied = "null"
                 /\ path = "Denied" => c.denied = c.state /\ c.granted = "null"

C8_Witness ==
  \E i \in HandlerCalls("async") :
    /\ calls[i].state = "prompt"
    /\ Count(i, "onPermissionGranted") = 1
    /\ calls[i].granted = "prompt"
    /\ calls[i].denied = "null"

C10_SlotBeforeOption ==
  /\ \A k \in 1..Len(log) :
       \A q \in {"Granted", "Denied", "Error"} :
         /\ log[k].src = "outcome"
         /\ log[k].cb = OptionOf(q)
         /\ calls[log[k].call].slotsAt[SlotOf(q)] # None
         => \E j \in 1..(k - 1) :
              /\ log[j].call = log[k].call
              /\ log[j].src = "outcome"
              /\ log[j].cb = SlotOf(q)
  /\ \A i \in HandlerCalls("sync") :
       LET c == calls[i]
           opt == handlers[c.h].handlerOption
       IN /\ c.slotsAt[SlotOf(PathOf(c))] = None /\ Supplied(opt, PathOf(c)) # None
            => Count(i, OptionOf(PathOf(c))) = 1
          /\ RaisedIn(i) /\ PathOf(c) # "Error"
               /\ c.slotsAt.onPermissionError = None /\ opt.error # None
            => Count(i, "options.error") = 1

C10_Witness ==
  \E j, k \in 1..Len(log) :
    /\ j < k
    /\ log[j].call = log[k].call
    /\ calls[log[j].call].kind = "sync"
    /\ log[j].cb = "onPermissionDenied"
    /\ log[k].cb = "options.denied"

----------------------------------------------------------------------------
\* What the promise of an async invocation was settled with.
IsResponse(c) ==
  /\ c.result = "resolved"
  /\ c.reason = None
  /\ IF c.state = "denied"
     THEN c.denied = "denied" /\ c.granted = "null"
     ELSE c.granted = c.state /\ c.denied = "null"

C12_FailureRejects ==
  \A i \in HandlerCalls("async") :
    calls[i].promise = "rejected" =>
      /\ calls[i].result = "rejected"
      /\ calls[i].reason = calls[i].state
      /\ calls[i].reason \in ErrorStates

\* C18: a sync invocation hands its caller no promise and no exception; an
\* error outcome reaches only onPermissionError and options.error, each at
\* most once and with the error outcome as argument, and when neither is
\* there no callback runs for the invocation.
C18_SyncErrorRouting ==
  /\ \A i \in 1..Len(calls) : calls[i].kind = "sync" => calls[i].result = None
  /\ \A i \in HandlerCalls("sync") :
       LET c == calls[i]
           opt == handlers[c.h].handlerOption
           slot == c.slotsAt.onPermissionError
       IN c.promise = "rejected" =>
            /\ \A k \in 1..Len(log) :
                 log[k].call = i /\ log[k].src = "outcome" =>
                   /\ log[k].cb \in {"onPermissionError", "options.error"}
                   /\ log[k].arg = c.state
                   /\ log[k].arg \in ErrorStates
            /\ Count(i, "onPermissionError") = (IF slot = None THEN 0 ELSE 1)
            /\ Count(i, "options.error") =
                 (IF opt.error = None \/ Raises(slot) THEN 0 ELSE 1)

C18_Witness ==
  \E i, j \in HandlerCalls("sync") :
    /\ calls[i].promise = "rejected"
    /\ calls[i].slotsAt.onPermissionError = None
    /\ handlers[calls[i].h].handlerOption.error = None
    /\ \A k \in 1..Len(log) : log[k].call # i
    /\ calls[j].promise = "rejected"
    /\ Count(j, "onPermissionError") = 1

\* The provider queries made so far are one per invocation, when there is a
\* provider; and each way of reporting an error outcome is used at most once
\* per invocation, the registered onPermissionError exactly once.
C19_Calls ==
  /\ providerCalls = (IF permissions THEN Len(calls) ELSE 0)
  /\ \A i \in HandlerCalls("sync") \cup HandlerCalls("async") :
       calls[i].promise = "rejected" =>
         /\ Count(i, "onPermissionError") =
              (IF calls[i].slotsAt.onPermissionError = None THEN 0 ELSE 1)
         /\ Count(i, "options.error") <= 1
         /\ Count(i, "reject") <= 1

\* A step makes a provider query only by starting an invocation, and then one.
C19_Step ==
  /\ (providerCalls' # providerCalls) =>
       (Len(calls') = Len(calls) + 1 /\ providerCalls' = providerCalls + 1)
  /\ (Len(calls') = Len(calls)) => (providerCalls' = providerCalls)

\* C19: every handler invocation makes exactly one provider query, also
\* while earlier invocations are pending; the completion of a query, failed
\* or not, makes no further query; and a failure is reported once per
\* invocation.
C19_OneQueryPerInvocation ==
  /\ []C19_Calls
  /\ [][C19_Step]_vars

C19_Witness ==
  /\ permissions
  /\ Len(calls) = 2
  /\ providerCalls = 2
  /\ calls[1].h = calls[2].h
  /\ calls[1].promise = "pending"
  /\ calls[2].promise = "rejected"
  /\ Count(2, "options.error") = 1

----------------------------------------------------------------------------
\* Vocabulary of the change properties: the callbacks a step runs.
NewEntries == SubSeq(log', Len(log) + 1, Len(log'))
NewFor(i) == SelectSeq(NewEntries, LAMBDA e : e.call = i)
Times(seq, cb) == Len(SelectSeq(seq, LAMBDA e : e.cb = cb))
Position(seq, cb) ==
  IF \E k \in 1..Len(seq) : seq[k].cb = cb
  THEN CHOOSE k \in 1..Len(seq) :
         seq[k].cb = cb /\ \A j \in 1..(k - 1) : seq[j].cb # cb
  ELSE 0
\* No callback that runs before onPermissionChange raised.
DeniedReturned(seq) ==
  \A k \in 1..Len(seq) : seq[k].cb # "onPermissionChange" => ~Raises(seq[k].fn)
\* Invocation i was delivered a status while onPermissionChange was registered.
CompletedListening(i) ==
  /\ calls[i].kind # "query"
  /\ calls[i].promise = "resolved"
  /\ calls[i].slotsAt.onPermissionChange # None
\* Invocation i got a status in state prompt with onPermissionChange
\* registered, onPermissionDenied is registered, and the host's decision for
\* the name goes from prompt to denied.
C13_Case(n, i) ==
  /\ provState[n] = "prompt" /\ provState'[n] = "denied"
  /\ calls[i].option = n
  /\ CompletedListening(i)
  /\ calls[i].state = "prompt"
  /\ events[calls[i].h].onPermissionDenied # None

\* C13 as claimed: in that case both callbacks run, onPermissionChange
\* before onPermissionDenied.
C13_ChangeBeforeDenied ==
  [][\A n \in RecognizedNames, i \in 1..Len(calls) :
       C13_Case(n, i) =>
         /\ Times(NewFor(i), "onPermissionChange") = 1
         /\ Times(NewFor(i), "onPermissionDenied") = 1
         /\ Position(NewFor(i), "onPermissionChange")
              < Position(NewFor(i), "onPermissionDenied")]_vars

\* C13 as amended: in that case onPermissionDenied runs once and first,
\* onPermissionChange runs after it and last, and it does run when the denied
\* callbacks before it return.
C13_DeniedBeforeChange ==
  [][\A n \in RecognizedNames, i \in 1..Len(calls) :
       C13_Case(n, i) =>
         /\ Times(NewFor(i), "onPermissionDenied") = 1
         /\ Position(NewFor(i), "onPermissionDenied") = 1
         /\ Times(NewFor(i), "onPermissionChange") <= 1
         /\ \A k \in 1..Len(NewFor(i)) :
              NewFor(i)[k].cb = "onPermissionChange" => k = Len(NewFor(i)) /\ k > 1
         /\ DeniedReturned(NewFor(i)) => Times(NewFor(i), "onPermissionChange") = 1]_vars

C13_Witness ==
  \E k \in 1..(Len(log) - 1) :
    /\ calls[log[k].call].state = "prompt"
    /\ log[k].src = "change" /\ log[k].arg = "denied"
    /\ log[k].cb = "onPermissionDenied"
    /\ log[k + 1].src = "change" /\ log[k + 1].arg = "denied"
    /\ log[k + 1].cb = "onPermissionChange"
    /\ log[k + 1].call = log[k].call

\* The host's decision for a name changes while invocation i of that name
\* has completed with a status and onPermissionChange registered.
C14_Case(n, i) ==
  /\ provState'[n] # provState[n]
  /\ calls[i].option = n
  /\ CompletedListening(i)

C15_LaterDenyRunsDenied ==
  [][\A n \in RecognizedNames, i \in 1..Len(calls) :
       /\ provState[n] # "denied" /\ provState'[n] = "denied"
       /\ calls[i].option = n
       /\ calls[i].kind # "query"
       /\ calls[i].promise = "resolved"
       /\ calls[i].state = "prompt"
       => LET ev == events[calls[i].h]
              opt == handlers[calls[i].h].handlerOption
          IN /\ ev.onPermissionDenied # None =>
                  Times(NewFor(i), "onPermissionDenied") >= 1
             /\ calls[i].kind = "sync" /\ opt.denied # None
                  /\ ~Raises(ev.onPermissionDenied)
                  => Times(NewFor(i), "options.denied") >= 1]_vars

\* The invocations for a name that completed with a status while
\* onPermissionChange was registered.
ListeningFor(n) ==
  {i \in 1..Len(calls) : calls[i].option = n /\ CompletedListening(i)}

----------------------------------------------------------------------------
\* The options callback a log entry names, by the options of handler h.
OptionNames == {"options.granted", "options.denied", "options.error"}
SuppliedAs(h, cb) ==
  IF cb = "options.granted" THEN handlers[h].handlerOption.granted
  ELSE IF cb = "options.denied" THEN handlers[h].handlerOption.denied
  ELSE handlers[h].handlerOption.error

\* C16: the record of a handler changes only by a registration on that
\* handler, and a new handler gets an empty record of its own; every callback
\* that runs for an invocation or a change notification of a handler is taken
\* from that handler's own record and options, so a callback registered on
\* another handler never runs for it.
C16_Isolation ==
  [][/\ \A h \in 1..Len(handlers) :
          events'[h] # events[h] => nRegs' = nRegs + 1 /\ lastReg'.h = h
     /\ Len(handlers') > Len(handlers) =>
          /\ Len(events') = Len(handlers')
          /\ events'[Len(handlers')] = EmptyEvents
     /\ \A k \in 1..Len(NewEntries) :
          /\ NewEntries[k].h = calls'[NewEntries[k].call].h
          /\ NewEntries[k].cb \in SlotNames =>
               NewEntries[k].fn = events[NewEntries[k].h][NewEntries[k].cb]
          /\ NewEntries[k].cb \in OptionNames =>
               NewEntries[k].fn = SuppliedAs(NewEntries[k].h, NewEntries[k].cb)]_vars

C16_Witness ==
  /\ Len(handlers) = 2
  /\ handlers[1].option = handlers[2].option
  /\ events[1].onPermissionGranted # None
  /\ events[2] = EmptyEvents
  /\ \E i \in SettledCalls :
       /\ calls[i].h = 2
       /\ calls[i].promise = "resolved" /\ calls[i].state = "granted"
       /\ Count(i, "onPermissionGranted") = 0

\* C17: a registration puts its callback in its slot whatever the slot held,
\* and changes nothing else of the records; a notification runs for a slot
\* the callback the slot holds then, once: the one registered last.
C17_Overwrite ==
  [][/\ nRegs' # nRegs =>
          /\ lastReg'.h \in 1..Len(handlers)
          /\ events' = [events EXCEPT ![lastReg'.h][lastReg'.slot] = lastReg'.callback]
     /\ \A k \in 1..Len(NewEntries) :
          NewEntries[k].cb \in SlotNames =>
            /\ NewEntries[k].fn = events[NewEntries[k].h][NewEntries[k].cb]
            /\ Times(NewFor(NewEntries[k].call), NewEntries[k].cb) = 1]_vars

C17_Witness ==
  \E k \in 1..Len(log) :
    /\ log[k].src = "change"
    /\ log[k].cb = "onPermissionChange"
    /\ calls[log[k].call].slotsAt.onPermissionChange # None
    /\ calls[log[k].call].slotsAt.onPermissionChange # log[k].fn
    /\ events[log[k].h].onPermissionChange = log[k].fn

----------------------------------------------------------------------------
\* Direct getPermission calls that have settled.
QueryCalls == {i \in SettledCalls : calls[i].kind = "query"}

\* C26: the status a getPermission call resolves with carries the state the
\* host has when the query of that call completes, whatever earlier calls
\* for the same option resolved with.
C26_NoCache ==
  [][\A i \in 1..Len(calls) :
       calls[i].promise = "pending" /\ calls'[i].promise = "resolved" =>
         /\ calls'[i].state = provState[calls[i].option]
         /\ calls'[i].state = provState'[calls[i].option]]_vars

C26_Witness ==
  \E i, j \in QueryCalls :
    /\ i < j
    /\ calls[i].option = calls[j].option
    /\ calls[i].promise = "resolved" /\ calls[j].promise = "resolved"
    /\ calls[i].epoch < calls[j].epoch
    /\ calls[i].state = "granted"
    /\ calls[j].state = "denied"
    /\ provState[calls[j].option] = "denied"

\* C27: two getPermission calls for the same option that complete with no
\* change of the host between them, the provider answering both or failing
\* both, settle the same way with the same state; for an option the provider
\* does not recognise, and without a provider, every call settles alike.
C27_Idempotent ==
  \A i, j \in QueryCalls :
    calls[i].option = calls[j].option =>
      /\ calls[i].epoch = calls[j].epoch
           /\ ((calls[i].raised = None) <=> (calls[j].raised = None))
           => /\ calls[i].state = calls[j].state
              /\ calls[i].promise = calls[j].promise
      /\ ~permissions \/ calls[i].option \notin RecognizedNames
           => /\ calls[i].state = calls[j].state
              /\ calls[i].promise = calls[j].promise

C27_Witness ==
  \E i, j \in QueryCalls :
    /\ i < j
    /\ nChanges > 0
    /\ calls[i].option = calls[j].option
    /\ calls[i].epoch = calls[j].epoch
    /\ calls[i].raised = "InvalidStateError"
    /\ calls[j].raised = "NotSupportedError"
    /\ calls[i].state = "invalid" /\ calls[j].state = "invalid"

----------------------------------------------------------------------------
\* C23 as claimed: once the provider call of an async invocation has
\* completed or failed, the promise of the invocation is settled, resolved
\* or rejected.
C23_SettlesOnCompletion ==
  \A i \in HandlerCalls("async") : calls[i].result \in {"resolved", "rejected"}

----------------------------------------------------------------------------
\* The slot callbacks among log entries: slot, callback and argument, in order.
SlotCalls(seq) ==
  LET f == SelectSeq(seq, LAMBDA e : e.cb \in SlotNames)
  IN [k \in 1..Len(f) |-> <<f[k].cb, f[k].fn, f[k].arg>>]

\* C22: when the outcome of an async invocation is delivered, and at every
\* change event of its status, the slot callbacks that run are those, in the
\* same order and with the same arguments, that a sync handler constructed
\* without options runs for the same slots, provider answer and new state;
\* and the listener is attached in the same case.
C22_SameCallbacks ==
  [][\A i \in 1..Len(calls) :
       calls[i].kind = "async" =>
         /\ calls[i].promise = "pending" /\ calls'[i].promise # "pending" =>
              /\ SlotCalls(NewFor(i)) =
                   SlotCalls(SyncDelivery(calls'[i], i, events[calls[i].h], NoOption))
              /\ calls'[i].onchange =
                   (calls'[i].promise = "resolved"
                      /\ events[calls[i].h].onPermissionChange # None)
         /\ provState' # provState =>
              SlotCalls(NewFor(i)) =
                (IF calls[i].onchange
                 THEN SlotCalls(Run(SyncOnChange(events[calls[i].h], NoOption,
                                                 provState'[calls[i].option]),
                                    calls[i].h, i, provState'[calls[i].option],
                                    "change").log)
                 ELSE <<>>)]_vars

C22_Witness ==
  \E k \in 1..(Len(log) - 1) :
    /\ calls[log[k].call].kind = "async"
    /\ log[k].cb = "onPermissionGranted" /\ Raises(log[k].fn)
    /\ log[k + 1].call = log[k].call
    /\ log[k + 1].cb = "onPermissionError" /\ log[k + 1].arg = Thrown
    /\ nChanges > 0

----------------------------------------------------------------------------
\* C28: once constructed a handler object is frozen: its own properties are
\* the four registration methods and no step, a caller's assignment or delete
\* included, changes them or anything else of the object; a registration
\* still puts its callback in the slot of the handler's record.
C28_Frozen ==
  [][/\ \A h \in 1..Len(handlers) :
          /\ handlers'[h].frozen
          /\ handlers'[h].own = OwnMethods
          /\ handlers'[h].own = handlers[h].own
          /\ handlers'[h].flavour = handlers[h].flavour
          /\ handlers'[h].option = handlers[h].option
          /\ handlers'[h].handlerOption = handlers[h].handlerOption
          /\ handlers'[h].attempts # handlers[h].attempts =>
               handlers'[h].refused = handlers[h].refused + 1
     /\ nRegs' # nRegs =>
          /\ events'[lastReg'.h][lastReg'.slot] = lastReg'.callback
          /\ handlers' = handlers]_vars

C28_Witness ==
  \E h \in 1..Len(handlers) :
    /\ handlers[h].refused > 0
    /\ handlers[h].own = OwnMethods
    /\ events[h] # EmptyEvents
    /\ nChanges > 0
    /\ \E i \in SettledCalls : calls[i].h = h

\* C29: a step in which a call starts or settles, a callback runs or the
\* host's decision changes leaves every slot of every record as it is; the
\* slots of an existing record change only in a registration, and then only
\* the registered slot.
C29_SlotsFrame ==
  [][/\ calls' # calls \/ log' # log \/ provState' # provState
            \/ providerCalls' # providerCalls
          => \A h \in 1..Len(handlers) : events'[h] = events[h]
     /\ \A h \in 1..Len(handlers) :
          events'[h] # events[h] =>
            /\ nRegs' = nRegs + 1
            /\ lastReg'.h = h
            /\ \A n \in SlotNames \ {lastReg'.slot} : events'[h][n] = events[h][n]]_vars

C29_Witness ==
  /\ nRegs = 1
  /\ nChanges > 0
  /\ \E i \in SettledCalls :
       /\ calls[i].kind # "query"
       /\ calls[i].slotsAt = EmptyEvents
       /\ events[calls[i].h] = [EmptyEvents EXCEPT ![lastReg.slot] = lastReg.callback]
       /\ \E k \in 1..Len(log) : log[k].call = i

\* C30: the invocation of a sync handler hands back nothing and runs no
\* callback; while the provider call of the invocation has not settled no
\* callback has run for it, and every callback that runs for it runs when or
\* after that call has settled.
C30_FireAndForget ==
  [][/\ Len(calls') = Len(calls) + 1 =>
          /\ log' = log
          /\ calls'[Len(calls')].promise = "pending"
          /\ calls'[Len(calls')].kind = "sync" =>
               calls'[Len(calls')].result = None
     /\ \A i \in 1..Len(calls') :
          calls'[i].kind = "sync" =>
            /\ calls'[i].result = None
            /\ calls'[i].promise = "pending" =>
                 \A k \in 1..Len(log') : log'[k].call # i
     /\ \A k \in 1..Len(NewEntries) :
          calls'[NewEntries[k].call].promise # "pending"]_vars

C30_Witness ==
  \E i, j \in 1..Len(calls) :
    /\ calls[i].kind = "sync" /\ calls[j].kind = "sync"
    /\ calls[i].promise = "pending"
    /\ calls[j].promise # "pending"
    /\ Count(j, "options.granted") = 1
    /\ \A k \in 1..Len(log) : log[k].call = j

\* C24: every handler has exactly one registration record: the record is
\* created with its four slots empty in the step that constructs the handler,
\* no step removes a record or a handler, every invocation belongs to a
\* handler that has its record, and the record of one handler is not the
\* record of another (a registration changes one record only).
C24_OneRecordPerHandler ==
  [][/\ Len(events') = Len(handlers')
     /\ Len(handlers') >= Len(handlers)
     /\ Len(handlers') <= Len(handlers) + 1
     /\ Len(handlers') = Len(handlers) + 1 =>
          /\ events'[Len(handlers')] = EmptyEvents
          /\ \A h \in 1..Len(handlers) : events'[h] = events[h]
     /\ \A i \in 1..Len(calls') :
          calls'[i].kind # "query" => calls'[i].h \in 1..Len(events')
     /\ \A h \in 1..Len(handlers) :
          events'[h] # events[h] =>
            \A g \in 1..Len(handlers) \ {h} : events'[g] = events[g]]_vars

C24_Witness ==
  /\ Len(handlers) = 2
  /\ Len(events) = 2
  /\ events[1] # EmptyEvents
  /\ events[2] = EmptyEvents
  /\ handlers[2].flavour = "sync"
  /\ \E i \in SettledCalls : calls[i].h = 2

\* C25: a handler is never used up: whatever its earlier invocations came to
\* and whatever changes happened, it can be invoked again (up to the bound on
\* calls); each invocation starts one new pending call with its own provider
\* query and leaves the earlier calls as they are, and when that call settles
\* the slots read are the ones of the handler's record in that step.
C25_Invocable ==
  \A h \in 1..Len(handlers) :
    Len(calls) < cap.calls =>
      IF handlers[h].flavour = "sync" THEN ENABLED Handler(h)
                                      ELSE ENABLED AsyncHandler(h)

C25_Step ==
  /\ Len(calls') = Len(calls) + 1 =>
       /\ calls'[Len(calls')].promise = "pending"
       /\ calls'[Len(calls')].h \in 1..Len(handlers)
       /\ calls'[Len(calls')].option = handlers[calls'[Len(calls')].h].option
       /\ providerCalls' = providerCalls + (IF permissions THEN 1 ELSE 0)
       /\ \A i \in 1..Len(calls) : calls'[i] = calls[i]
  /\ \A i \in 1..Len(calls) :
       (calls[i].promise = "pending" /\ calls'[i].promise # "pending") =>
         /\ calls'[i].slotsAt = events[calls[i].h]
         /\ calls'[i].onchange =
              (calls'[i].promise = "resolved"
                 /\ events[calls[i].h].onPermissionChange # None)
  /\ \A k \in 1..Len(NewEntries) :
       NewEntries[k].cb = "onPermissionChange" =>
         NewEntries[k].fn = events[NewEntries[k].h].onPermissionChange

C25_NeverTerminal == []C25_Invocable /\ [][C25_Step]_vars

C25_Witness ==
  /\ Len(calls) = 2
  /\ calls[1].h = calls[2].h
  /\ calls[1].promise = "resolved" /\ calls[1].state = "denied"
  /\ ~calls[1].onchange
  /\ calls[2].promise = "resolved"
  /\ calls[2].onchange
  /\ calls[2].state # "denied"
  /\ \E k \in 1..Len(log) : log[k].call = 2 /\ log[k].src = "change"

\* C21: an invocation of one handler, when it starts and when it completes,
\* leaves the status objects of all other invocations, their change listeners
\* included, and all records as they were; and whenever the host's decision
\* changes, the listener of every invocation that attached one runs that
\* handler's onPermissionChange once, whichever handlers were invoked since.
C21_Step ==
  /\ \A i \in 1..Len(calls') :
       (i > Len(calls) \/ calls'[i] # calls[i]) =>
         /\ \A j \in 1..Len(calls) \ {i} : calls'[j] = calls[j]
         /\ events' = events
  /\ nChanges' # nChanges =>
       \A j \in 1..Len(calls) :
         calls[j].onchange =>
           /\ calls'[j].onchange
           /\ Times(NewFor(j), "onPermissionChange") = 1
           /\ \A k \in 1..Len(NewFor(j)) :
                NewFor(j)[k].cb = "onPermissionChange" =>
                  /\ NewFor(j)[k].h = calls[j].h
                  /\ NewFor(j)[k].fn = events[calls[j].h].onPermissionChange

C31_Step ==
  \A i \in 1..Len(calls) :
    calls[i].kind # "query" =>
      /\ (calls[i].promise = "pending" /\ calls'[i].promise # "pending") =>
           calls'[i].onchange =
             (calls'[i].promise = "resolved"
                /\ events[calls[i].h].onPermissionChange # None)
      /\ (calls[i].promise # "pending" /\ ~calls[i].onchange) =>
           /\ ~calls'[i].onchange
           /\ NewFor(i) = <<>>

C32_Step ==
  /\ \A i \in 1..Len(calls) :
       (calls[i].kind # "query" /\ calls[i].promise = "pending"
          /\ calls'[i].promise # "pending") =>
         LET h == calls[i].h
             slot == SlotOf(PathOf(calls'[i]))
         IN /\ \A k \in 1..Len(NewFor(i)) :
                 NewFor(i)[k].cb \in SlotNames =>
                   NewFor(i)[k].fn = events[h][NewFor(i)[k].cb]
            /\ events[h][slot] # None =>
                 /\ NewFor(i) # <<>>
                 /\ NewFor(i)[1].cb = slot
                 /\ NewFor(i)[1].fn = events[h][slot]
            /\ events[h][slot] = None =>
                 \A k \in 1..Len(NewFor(i)) : NewFor(i)[k].cb # slot
  /\ nChanges' # nChanges =>
       \A j \in 1..Len(calls) :
         calls[j].onchange =>
           /\ NewFor(j) # <<>>
           /\ \A k \in 1..Len(NewFor(j)) :
                NewFor(j)[k].cb \in SlotNames =>
                  NewFor(j)[k].fn = events[calls[j].h][NewFor(j)[k].cb]

C32_SlotsReadAtDelivery == [][C32_Step]_vars

C32_Witness ==
  \E i \in 1..Len(calls) :
    /\ calls[i].kind = "sync"
    /\ calls[i].promise = "resolved"
    /\ calls[i].state = "granted"
    /\ calls[i].slotsAtStart = EmptyEvents
    /\ calls[i].slotsAt.onPermissionGranted = "cb"
    /\ \E k \in 1..Len(log) :
         /\ log[k].call = i /\ log[k].src = "outcome"
         /\ log[k].cb = "onPermissionGranted" /\ log[k].fn = "cb"

\* C33: when the host's decision changes to granted or to prompt, the only
\* callback that runs is onPermissionChange, from a change listener: no
\* granted, denied or error callback, slot or option, runs in that step.
C33_Step ==
  \A n \in RecognizedNames :
    (provState'[n] # provState[n] /\ provState'[n] \in {"granted", "prompt"}) =>
      \A k \in 1..Len(NewEntries) :
        /\ NewEntries[k].cb = "onPermissionChange"
        /\ NewEntries[k].src = "change"
        /\ NewEntries[k].arg = provState'[n]
        /\ calls[NewEntries[k].call].onchange

C33_OnlyChange == [][C33_Step]_vars

C33_Witness ==
  \E i \in 1..Len(calls) :
    /\ calls[i].kind = "sync"
    /\ calls[i].state = "denied"
    /\ handlers[calls[i].h].handlerOption.granted = "cb"
    /\ handlers[calls[i].h].handlerOption.denied = "cb"
    /\ events[calls[i].h].onPermissionDenied = "cb"
    /\ nChanges = 1
    /\ provState[calls[i].option] = "granted"
    /\ \E k \in 1..Len(log) :
         /\ log[k].call = i /\ log[k].src = "change"
         /\ log[k].cb = "onPermissionChange" /\ log[k].arg = "granted"

\* Where in the log the promise of async invocation i was settled (0: not).
SettledAt(i) ==
  IF \E k \in 1..Len(log) : log[k].call = i /\ log[k].cb \in {"resolve", "reject"}
  THEN CHOOSE k \in 1..Len(log) : log[k].call = i /\ log[k].cb \in {"resolve", "reject"}
  ELSE 0

\* C34: when the promise of an async invocation resolves, the registered
\* onPermissionGranted or onPermissionDenied of the outcome has run before;
\* when it rejects, the registered onPermissionError has run before; no slot
\* callback runs for the outcome after the promise is settled.
C34_CallbackBeforeSettle ==
  \A i \in HandlerCalls("async") :
    LET c == calls[i]
        slot == IF c.result = "resolved" THEN SlotOf(PathOf(c))
                ELSE "onPermissionError"
    IN /\ (c.result \in {"resolved", "rejected"}) = (SettledAt(i) > 0)
       /\ c.result \in {"resolved", "rejected"} =>
            /\ log[SettledAt(i)].cb = (IF c.result = "resolved" THEN "resolve" ELSE "reject")
            /\ c.slotsAt[slot] # None =>
                 \E k \in 1..(SettledAt(i) - 1) :
                   /\ log[k].call = i /\ log[k].src = "outcome"
                   /\ log[k].cb = slot /\ log[k].fn = c.slotsAt[slot]
            /\ \A k \in (SettledAt(i) + 1)..Len(log) :
                 ~(log[k].call = i /\ log[k].src = "outcome")

C34_Witness ==
  \E i \in HandlerCalls("async") :
    /\ calls[i].result = "rejected"
    /\ calls[i].promise = "resolved"
    /\ \E k \in 1..Len(log) :
         /\ k + 2 = SettledAt(i)
         /\ log[k].call = i /\ log[k].cb = "onPermissionDenied" /\ Raises(log[k].fn)
         /\ log[k + 1].call = i /\ log[k + 1].cb = "onPermissionError"
         /\ log[k + 2].cb = "reject"

\* A granted-path or denied-path callback, slot or option, raised while the
\* status of invocation i was delivered.
RaisedOnStatus(i) ==
  /\ calls[i].promise = "resolved"
  /\ \E k \in 1..Len(log) :
       /\ log[k].call = i /\ log[k].src = "outcome"
       /\ log[k].cb \in {SlotOf(PathOf(calls[i])), OptionOf(PathOf(calls[i]))}
       /\ Raises(log[k].fn)

\* How often callback cb ran with the raised value for invocation i.
CountThrown(i, cb) ==
  Len(SelectSeq(log, LAMBDA e : e.call = i /\ e.src = "outcome" /\ e.cb = cb
                                  /\ e.arg = Thrown))

C36_RaiseRejects ==
  \A i \in HandlerCalls("async") :
    RaisedOnStatus(i) =>
      /\ calls[i].result = "rejected"
      /\ calls[i].reason = Thrown
      /\ calls[i].slotsAt.onPermissionError # None =>
           CountThrown(i, "onPermissionError") = 1

\* C37: a registration puts the callback in the named slot of the handler it
\* was called on and does nothing else: the handler's other three slots keep
\* their values, no provider query is made, no call starts or completes, no
\* listener is attached and no callback runs.
C37_Step ==
  nRegs' # nRegs =>
    LET h == lastReg'.h
        slot == lastReg'.slot
    IN /\ slot \in SlotNames
       /\ events'[h][slot] = lastReg'.callback
       /\ \A n \in SlotNames \ {slot} : events'[h][n] = events[h][n]
       /\ providerCalls' = providerCalls
       /\ Len(calls') = Len(calls)
       /\ \A i \in 1..Len(calls) :
            /\ calls'[i].onchange = calls[i].onchange
            /\ calls'[i].promise = calls[i].promise
            /\ calls'[i].result = calls[i].result
       /\ log' = log
       /\ provState' = provState

C37_RegistrationFrame == [][C37_Step]_vars

C37_Witness ==
  \E i \in 1..Len(calls) :
    /\ nRegs = 2
    /\ lastReg.slot = "onPermissionDenied"
    /\ calls[i].onchange
    /\ calls[i].slotsAt.onPermissionChange = "cb"
    /\ calls[i].slotsAt.onPermissionDenied = None
    /\ events[calls[i].h] =
         [EmptyEvents EXCEPT !.onPermissionChange = "cb",
                             !.onPermissionDenied = lastReg.callback]
    /\ providerCalls = 1
    /\ log = <<Entry("resolve", None, calls[i].h, i, calls[i].state, "outcome")>>

====
